---- MODULE Spec2Model ----
(***************************************************************************)
(* Checkpoint coordinator and conflict-aware edit applier of               *)
(* DesktopCommanderMCP: the pending-change tracker and the sweep           *)
(* (src/tools/batch-operations.ts, with the sweep called at once by every  *)
(* enrollment, and its variant that calls the sweep from a timer after a   *)
(* quiet window), the edit applier                                         *)
(* (src/handlers/edit-search-handlers.ts) and the explicit git operations  *)
(* (src/handlers/git-handlers.ts, src/tools/git.ts).                       *)
(*                                                                         *)
(* The host is single-threaded: a tool invocation runs without             *)
(* interruption from one await to the next.  Every process p is one tool   *)
(* invocation; pc[p] names the await it is suspended at, and one action    *)
(* is the code that runs from that await to the next one.  An await whose  *)
(* continuation neither reads nor writes shared state (a repository        *)
(* lookup before the first shared access) is taken together with the step  *)
(* before it: such a step commutes with every step of the others.          *)
(*                                                                         *)
(* The clock is read by the timer variant alone; the variant without a     *)
(* timer only stores it.  Time therefore advances under the timer variant  *)
(* and stays at its first value under the other.                           *)
(*                                                                         *)
(* The tracker is followed with the backend's answers left open; the       *)
(* repositories themselves (log, index and working tree) are followed      *)
(* under SpecRepo, the commit message under SpecMessages, the code search *)
(* with its deadline under SpecSearch, and the file layer (path            *)
(* validation, reads that yield a message in place of the content, writes) *)
(* under SpecFiles; elsewhere a read returns the content of the file.      *)
(***************************************************************************)
EXTENDS Integers, Sequences, FiniteSets, TLC

\* Number of tool invocations the host runs at the same time.
MaxProcs == 2

\* Last value of the clock.
MaxTime == 4

\* The window of inactivity after which the timer calls the sweep, in units of
\* half the window (7500 ms).
DEFAULT_BATCH_TIMEOUT == 2

\* The tool invocations, and the callback of the timer.
Invocations == 1..MaxProcs

TimerCallback == 0

Procs == Invocations \cup {TimerCallback}

\* The tracker calls the sweep itself, or leaves it to the timer.
Policies == {"immediate", "debounced"}

\* Repository roots, and absolute paths as sequences of segments.
Repos == {"r1", "r2"}

RepoFiles == {<<"r1", "a">>, <<"r1", "b">>, <<"r2", "c">>}

OutsideFiles == {<<"tmp", "d">>}

Paths == RepoFiles \cup OutsideFiles

NoRepo == "none"

NoTimer == 0

NoMessage == <<>>

\* The requests the agent sends: edit blocks that find their search text, one that
\* does not, and snapshots of a file inside and of a file outside a repository.
Hit == [search |-> <<"x">>, replace |-> <<"x">>]

Miss == [search |-> <<"z">>, replace |-> <<"x">>]

EditCalls == (Paths \X {Hit}) \cup {<<<<"r1", "a">>, Miss>>}

SnapshotCalls == {<<"r1", "a">>, <<"tmp", "d">>}

InitialContent == <<"x">>

\* Longest file content and longest search text of the edits that change content.
MaxLen == 3

MaxSearch == 2

\* Longest log of a repository.
MaxCommits == 4

Alphabet == {"x", "y"}

Strings(n) ==
    UNION {[1..k -> Alphabet] : k \in 0..n}

\* The files those edits work on, their possible contents, and their blocks.
EditFiles == {<<"r1", "a">>, <<"tmp", "d">>}

Contents == Strings(MaxLen)

Replacements == {<<>>, <<"y">>, <<"y", "x">>}

EditBlocks == {[search |-> s, replace |-> r] : s \in Strings(MaxSearch), r \in Replacements}

VARIABLES
    pendingChangesByRepo,  \* sequence of [repoRoot, files], in key insertion order
    lastTrackTimestamp,
    commitInProgress,
    snapshotTimeoutId,     \* the handle: NoTimer, or the time its timer is due
    timers,                \* the timers set and neither fired nor cleared
    policy,                \* which tracker is built in
    now,                   \* Date.now()
    disk,                  \* content of every file
    pc,                    \* the await each invocation is suspended at
    loc,                   \* the locals of each invocation
    hist,                  \* what each invocation has done so far (observation only)
    repo,                  \* each repository's commits and index, where they are followed
    lastCall,              \* the last call of an adapter operation and its answer
    search,                \* each invocation's search: withTimeout's closure, the subprocess
    currentSearchProcess   \* globalThis.currentSearchProcess: the invocation whose
                           \* subprocess is registered, or NoProcess

vars == <<pendingChangesByRepo, lastTrackTimestamp, commitInProgress,
          snapshotTimeoutId, timers, policy, now, disk, pc, loc, hist, repo, lastCall,
          search, currentSearchProcess>>

searchVars == <<search, currentSearchProcess>>

\* The state of the tracker, which the operations on the adapter never touch.
trackerVars == <<pendingChangesByRepo, lastTrackTimestamp, commitInProgress,
                 snapshotTimeoutId, timers, policy, now>>

----------------------------------------------------------------------------
\* The pending map: a JavaScript object whose keys keep insertion order.

Keys(pend) ==
    [i \in 1..Len(pend) |-> pend[i].repoRoot]

HasKey(pend, repoRoot) ==
    \E i \in 1..Len(pend) : pend[i].repoRoot = repoRoot

Get(pend, repoRoot) ==
    IF HasKey(pend, repoRoot)
    THEN (CHOOSE e \in {pend[i] : i \in 1..Len(pend)} : e.repoRoot = repoRoot).files
    ELSE {}

Put(pend, repoRoot, files) ==
    IF HasKey(pend, repoRoot)
    THEN [i \in 1..Len(pend) |->
             IF pend[i].repoRoot = repoRoot
             THEN [repoRoot |-> repoRoot, files |-> files]
             ELSE pend[i]]
    ELSE Append(pend, [repoRoot |-> repoRoot, files |-> files])

\* Rest of the entries from the first one whose set is not empty.
RECURSIVE SkipEmpty(_, _)
SkipEmpty(rest, pend) ==
    IF rest = <<>> THEN <<>>
    ELSE IF Get(pend, Head(rest)) # {} THEN rest
    ELSE SkipEmpty(Tail(rest), pend)

----------------------------------------------------------------------------
\* The version-control adapter seen from the core.

IsGitRepository(path) ==
    path[1] \in Repos

GetRepositoryRoot(path) ==
    path[1]

\* filePath.replace(repoRoot + "/", "")
RelativePath(filePath, repoRoot) ==
    IF Len(filePath) > 1 /\ filePath[1] = repoRoot THEN Tail(filePath) ELSE filePath

\* Paths a status query of a repository can list, relative to its root.
StatusPaths(repoRoot) ==
    {RelativePath(f, repoRoot) : f \in {g \in RepoFiles : g[1] = repoRoot}}

----------------------------------------------------------------------------
\* String search and splice of the edit applier, on sequences of characters.

IsAt(s, sub, i) ==
    /\ i + Len(sub) <= Len(s)
    /\ \A k \in 1..Len(sub) : s[i + k] = sub[k]

\* lastIndexOf in its place: the highest offset.
LastIndexOf(s, sub) ==
    IF \E i \in 0..Len(s) : IsAt(s, sub, i)
    THEN CHOOSE i \in 0..Len(s) :
             /\ IsAt(s, sub, i)
             /\ \A j \in (i + 1)..Len(s) : ~IsAt(s, sub, j)
    ELSE -1

\* An indexOf that finds no empty text.
IndexOfNonEmpty(s, sub) ==
    IF sub # <<>> /\ \E i \in 0..Len(s) : IsAt(s, sub, i)
    THEN CHOOSE i \in 0..Len(s) :
             /\ IsAt(s, sub, i)
             /\ \A j \in 0..(i - 1) : ~IsAt(s, sub, j)
    ELSE -1

\* String.prototype.indexOf: the lowest 0-based offset, -1 when absent.
IndexOf(s, sub) ==
    IF \E i \in 0..Len(s) : IsAt(s, sub, i)
    THEN CHOOSE i \in 0..Len(s) :
             /\ IsAt(s, sub, i)
             /\ \A j \in 0..(i - 1) : ~IsAt(s, sub, j)
    ELSE -1

Substring(s, from, to) ==
    SubSeq(s, from + 1, to)

NewContent(contentStr, searchIndex, block) ==
    Substring(contentStr, 0, searchIndex)
        \o block.replace
        \o Substring(contentStr, searchIndex + Len(block.search), Len(contentStr))

----------------------------------------------------------------------------
\* Locals of an invocation; a local is reset when its scope is left.
Loc0 ==
    [op |-> "none", filePath |-> <<>>, block |-> [search |-> <<>>, replace |-> <<>>],
     contentStr |-> <<>>, searchIndex |-> -1, trackedRoot |-> NoRepo,
     message |-> NoMessage, entries |-> <<>>, repoRoot |-> NoRepo, fileArray |-> {},
     commitMessage |-> NoMessage, status |-> {}, allChangedFiles |-> {},
     result |-> "none"]

\* Observation of an invocation, read by no action: whether a commit of the
\* repository of the file it enrolled has succeeded since, whether its call of
\* trackFileChange has returned, how its call of the sweep ended ("none", "dropped",
\* "returned", "raised"), and how the repository its sweep handled last ended
\* ("none", "committed", "failed").
Hist0 ==
    [checkpointed |-> FALSE, tracked |-> FALSE, sweep |-> "none", last |-> "none"]

\* A tree: the content of every file of a repository, by relative path.
Tree0(repoRoot) ==
    [path \in StatusPaths(repoRoot) |-> InitialContent]

\* Every repository starts with one commit holding the initial content, and with
\* nothing staged.
Repo0 ==
    [repoRoot \in Repos |-> [log |-> <<Tree0(repoRoot)>>, index |-> Tree0(repoRoot)]]

\* No search yet: no operation, no timer, nothing resolved, no subprocess.
Search0 ==
    [operation |-> "none", timer |-> "none", isCompleted |-> FALSE, resolved |-> <<>>,
     process |-> "none"]

NoProcess == 0

NoCall ==
    [op |-> "none", filePath |-> <<>>, commitHash |-> 0, backend |-> "none",
     result |-> "none", history |-> <<>>]

InitWith(pol) ==
    /\ pendingChangesByRepo = <<>>
    /\ lastTrackTimestamp = 0
    /\ commitInProgress = FALSE
    /\ snapshotTimeoutId = NoTimer
    /\ timers = {}
    /\ policy = pol
    /\ now = 1
    /\ disk = [f \in Paths |-> InitialContent]
    /\ pc = [p \in Procs |-> "idle"]
    /\ loc = [p \in Procs |-> Loc0]
    /\ hist = [p \in Procs |-> Hist0]
    /\ repo = Repo0
    /\ lastCall = NoCall
    /\ search = [p \in Procs |-> Search0]
    /\ currentSearchProcess = NoProcess

Init ==
    InitWith("immediate")

InitPolicies ==
    \E pol \in Policies : InitWith(pol)

\* A commit of repoRoot succeeded: every invocation that has enrolled a file of
\* that repository and has not yet written it now has a checkpoint behind it.
MarkCheckpoint(H, repoRoot) ==
    [q \in Procs |->
        IF loc[q].trackedRoot = repoRoot /\ pc[q] # "done"
        THEN [H[q] EXCEPT !.checkpointed = TRUE]
        ELSE H[q]]

----------------------------------------------------------------------------
\* The sweep: createSnapshotsForPendingChanges.

\* Where the caller of the sweep resumes once the sweep has returned.
AfterSweep(l) ==
    IF l.op = "edit_block" THEN "write" ELSE "done"

ResultAfterSweep(l) ==
    IF l.op = "force_create_snapshots" THEN "snapshots_created" ELSE l.result

\* The generated message used whether or not the caller gave one.
CommitMessageGenerated(message, fileArray) ==
    IF Cardinality(fileArray) = 1
    THEN <<"Project snapshot before editing">> \o (CHOOSE f \in fileArray : TRUE)
    ELSE <<"Project snapshot before editing files", ToString(Cardinality(fileArray))>>

\* message || (one file ? name it : count them)
CommitMessage(message, fileArray) ==
    IF message # NoMessage THEN message
    ELSE IF Cardinality(fileArray) = 1
         THEN <<"Project snapshot before editing">> \o (CHOOSE f \in fileArray : TRUE)
         ELSE <<"Project snapshot before editing files", ToString(Cardinality(fileArray))>>

\* The same under the timer variant, with its own wording.
CommitMessageDebounced(message, fileArray) ==
    IF message # NoMessage THEN message
    ELSE IF Cardinality(fileArray) = 1
         THEN <<"Snapshot before editing">> \o (CHOOSE f \in fileArray : TRUE)
         ELSE <<"Snapshot before editing files", ToString(Cardinality(fileArray))>>

\* The locals of the loop body, left behind when the body is left.
LeaveEntry(l) ==
    [l EXCEPT !.repoRoot = NoRepo, !.fileArray = {}, !.commitMessage = NoMessage,
              !.status = {}, !.allChangedFiles = {}]

\* The sweep is over for its caller: normally ("returned", "dropped") or not.
ReturnToCaller(p, l, H, outcome) ==
    /\ pc' = [pc EXCEPT ![p] = AfterSweep(l)]
    /\ loc' = [loc EXCEPT ![p] = [LeaveEntry(l) EXCEPT !.entries = <<>>,
                                                       !.message = NoMessage,
                                                       !.result = ResultAfterSweep(l)]]
    /\ hist' = [H EXCEPT ![p].sweep = outcome, ![p].tracked = (l.op = "edit_block")]

\* The return with the finally block left out: the flag set on entry stays set.
FinishSweepNoRelease(p, l, H, outcome) ==
    /\ commitInProgress' = TRUE
    /\ ReturnToCaller(p, l, H, outcome)

\* The finally block, then the return.
FinishSweep(p, l, H, outcome) ==
    /\ commitInProgress' = FALSE
    /\ ReturnToCaller(p, l, H, outcome)

\* The loop over Object.entries(pendingChangesByRepo), from the entries `rest` on:
\* up to the first backend call for the next repository with a file pending, or to
\* the end.  That call is the status query; the timer variant has none and calls
\* commitChanges with the tracked files.
ProcessEntries(p, l, H, rest, pend) ==
    LET nx == SkipEmpty(rest, pend) IN
    IF nx = <<>>
    THEN FinishSweep(p, l, H, "returned")
    ELSE LET fileArray == Get(pend, Head(nx))
             entry == [LeaveEntry(l) EXCEPT !.entries = Tail(nx),
                                            !.repoRoot = Head(nx),
                                            !.fileArray = fileArray]
         IN
         /\ commitInProgress' = TRUE
         /\ IF policy = "immediate"
            THEN /\ pc' = [pc EXCEPT ![p] = "status"]
                 /\ loc' = [loc EXCEPT ![p] =
                        [entry EXCEPT !.commitMessage =
                                          CommitMessage(l.message, fileArray)]]
            ELSE /\ pc' = [pc EXCEPT ![p] = "commit"]
                 /\ loc' = [loc EXCEPT ![p] =
                        [entry EXCEPT !.commitMessage =
                                          CommitMessageDebounced(l.message, fileArray),
                                      !.allChangedFiles = fileArray]]
         /\ hist' = H

\* A failure that is not caught per repository: it leaves the loop through the
\* finally block and reaches the caller.
CatchRepoErrorRethrow(p, l, H, pend) ==
    FinishSweep(p, l, H, "raised")

\* The catch of one repository's try: the failure is reported and the loop goes on.
CatchRepoError(p, l, H, pend) ==
    ProcessEntries(p, l, H, l.entries, pend)

\* The guard on commitInProgress: a trigger that finds a sweep running returns at once.
SkipDuplicate(p, l, H, tm) ==
    /\ commitInProgress
    /\ ReturnToCaller(p, l, H, "dropped")
    /\ timers' = tm
    /\ UNCHANGED <<commitInProgress, snapshotTimeoutId>>

\* clearTimeout: the timer of the handle, if still set, will not fire.
ClearTimeout(tm, handle) ==
    tm \ {handle}

\* StartSweep without its test of commitInProgress.
StartSweepUnguarded(p, l, H, pend, tm, message) ==
    /\ snapshotTimeoutId' = NoTimer
    /\ timers' = ClearTimeout(tm, snapshotTimeoutId)
    /\ ProcessEntries(p, [l EXCEPT !.message = message], H, Keys(pend), pend)

\* StartSweep without its clearTimeout.
StartSweepKeepsTimer(p, l, H, pend, tm, message) ==
    /\ ~commitInProgress
    /\ snapshotTimeoutId' = snapshotTimeoutId
    /\ timers' = tm
    /\ ProcessEntries(p, [l EXCEPT !.message = message], H, Keys(pend), pend)

\* A trigger that finds no sweep running takes the flag, cancels the timer and
\* starts the loop.
StartSweep(p, l, H, pend, tm, message) ==
    /\ ~commitInProgress
    /\ snapshotTimeoutId' = NoTimer
    /\ timers' = ClearTimeout(tm, snapshotTimeoutId)
    /\ ProcessEntries(p, [l EXCEPT !.message = message], H, Keys(pend), pend)

\* The entry with the guard's return left out: the duplicate is noticed and the
\* sweep runs all the same.
CreateSnapshotsNoReturn(p, l, H, pend, tm, message) ==
    \/ /\ commitInProgress
       /\ StartSweepUnguarded(p, l, [H EXCEPT ![p].sweep = "dropped"], pend, tm, message)
    \/ StartSweep(p, l, H, pend, tm, message)

\* Entry of the sweep, called with the pending map and the timers as the caller
\* leaves them.
CreateSnapshotsForPendingChanges(p, l, H, pend, tm, message) ==
    \/ SkipDuplicate(p, l, H, tm)
    \/ StartSweep(p, l, H, pend, tm, message)

\* The path list without the fallback to the tracked files.
FilesToCommitNoFallback(modified, not_added, staged, fileArray) ==
    modified \cup not_added \cup staged

\* The path list handed to commitChanges, from the status lists and the tracked files.
FilesToCommit(modified, not_added, staged, fileArray) ==
    LET allChangedFiles == modified \cup not_added \cup staged IN
    IF allChangedFiles = {} THEN fileArray ELSE allChangedFiles

\* getGitStatus has thrown: the catch of this repository's try.
StatusFailed(p) ==
    /\ CatchRepoError(p, loc[p], [hist EXCEPT ![p].last = "failed"],
                      pendingChangesByRepo)
    /\ UNCHANGED <<pendingChangesByRepo, snapshotTimeoutId, timers>>

\* getGitStatus has returned its lists: commitChanges is called.
StatusReturned(p, modified, not_added, staged) ==
    /\ pc' = [pc EXCEPT ![p] = "commit"]
    /\ loc' = [loc EXCEPT ![p].status = modified \cup not_added \cup staged,
                          ![p].allChangedFiles =
                              FilesToCommit(modified, not_added, staged, loc[p].fileArray)]
    /\ UNCHANGED <<pendingChangesByRepo, commitInProgress, snapshotTimeoutId, timers, hist>>

GetGitStatus(p) ==
    /\ pc[p] = "status"
    /\ \/ StatusFailed(p)
       \/ \E modified, not_added, staged \in SUBSET StatusPaths(loc[p].repoRoot) :
              StatusReturned(p, modified, not_added, staged)
    /\ UNCHANGED <<lastTrackTimestamp, now, policy, repo, lastCall, searchVars, disk>>

\* A variant that empties the set of every repository, not only the one committed.
ClearTrackedAll(pend, repoRoot) ==
    [i \in 1..Len(pend) |-> [pend[i] EXCEPT !.files = {}]]

\* files.clear() after a commit that returned its hash.
ClearTracked(pend, repoRoot) ==
    Put(pend, repoRoot, {})

\* commitChanges has returned a hash: the repository's set is cleared.
CommitSucceeded(p) ==
    LET cleared == ClearTracked(pendingChangesByRepo, loc[p].repoRoot) IN
    /\ pendingChangesByRepo' = cleared
    /\ ProcessEntries(p, loc[p],
           MarkCheckpoint([hist EXCEPT ![p].last = "committed"], loc[p].repoRoot),
           loc[p].entries, cleared)

\* commitChanges has thrown: the catch of this repository's try.
CommitFailed(p) ==
    /\ CatchRepoError(p, loc[p], [hist EXCEPT ![p].last = "failed"],
                      pendingChangesByRepo)
    /\ UNCHANGED pendingChangesByRepo

CommitChanges(p) ==
    /\ pc[p] = "commit"
    /\ \/ CommitSucceeded(p)
       \/ CommitFailed(p)
    /\ UNCHANGED <<lastTrackTimestamp, snapshotTimeoutId, timers, now, policy, repo, lastCall, searchVars, disk>>

----------------------------------------------------------------------------
\* The tracker: trackFileChange (immediate policy).

\* The set of the repository created anew at every enrollment.
EnrollFresh(pend, repoRoot, relativePath) ==
    Put(pend, repoRoot, {relativePath})

\* The file joins its repository's set, created on first use.
Enroll(pend, repoRoot, relativePath) ==
    Put(pend, repoRoot, Get(pend, repoRoot) \cup {relativePath})

\* getRepositoryRoot has thrown and trackFileChange lets the error through: the
\* edit ends with it.
TrackFailedRethrows(p) ==
    /\ pc' = [pc EXCEPT ![p] = "done"]
    /\ loc' = [loc EXCEPT ![p].result = "error"]
    /\ hist' = [hist EXCEPT ![p].tracked = TRUE]
    /\ UNCHANGED <<pendingChangesByRepo, lastTrackTimestamp, commitInProgress,
                   snapshotTimeoutId, timers>>

\* getRepositoryRoot has thrown: trackFileChange catches it and returns.
TrackFailed(p) ==
    /\ pc' = [pc EXCEPT ![p] = "write"]
    /\ hist' = [hist EXCEPT ![p].tracked = TRUE]
    /\ UNCHANGED <<pendingChangesByRepo, lastTrackTimestamp, commitInProgress,
                   snapshotTimeoutId, timers, loc>>

\* getRepositoryRoot has answered: the file is enrolled and the sweep is called.
TrackFileChange(p) ==
    LET repoRoot == GetRepositoryRoot(loc[p].filePath)
        relativePath == RelativePath(loc[p].filePath, repoRoot)
        pend == Enroll(pendingChangesByRepo, repoRoot, relativePath)
    IN
    /\ pendingChangesByRepo' = pend
    /\ lastTrackTimestamp' = now
    /\ CreateSnapshotsForPendingChanges(p, [loc[p] EXCEPT !.trackedRoot = repoRoot],
                                        hist, pend, timers,
                                        <<"Snapshot for">> \o relativePath)

\* setTimeout after clearTimeout of the handle: the timers and the new handle.
ScheduleSnapshotCreation(tm, handle) ==
    [timers |-> ClearTimeout(tm, handle) \cup {now + DEFAULT_BATCH_TIMEOUT},
     handle |-> now + DEFAULT_BATCH_TIMEOUT]

\* The same step of the timer variant: the file is enrolled and, unless a sweep is
\* running, the timer is set anew; the sweep is not called.
TrackFileChangeDebounced(p) ==
    LET repoRoot == GetRepositoryRoot(loc[p].filePath)
        relativePath == RelativePath(loc[p].filePath, repoRoot)
        scheduled == ScheduleSnapshotCreation(timers, snapshotTimeoutId)
    IN
    /\ pendingChangesByRepo' = Enroll(pendingChangesByRepo, repoRoot, relativePath)
    /\ lastTrackTimestamp' = now
    /\ IF ~commitInProgress
       THEN /\ timers' = scheduled.timers
            /\ snapshotTimeoutId' = scheduled.handle
       ELSE UNCHANGED <<timers, snapshotTimeoutId>>
    /\ pc' = [pc EXCEPT ![p] = "write"]
    /\ loc' = [loc EXCEPT ![p].trackedRoot = repoRoot]
    /\ hist' = [hist EXCEPT ![p].tracked = TRUE]
    /\ UNCHANGED commitInProgress

TrackGetRepositoryRoot(p) ==
    /\ pc[p] = "root"
    /\ \/ TrackFailed(p)
       \/ policy = "immediate" /\ TrackFileChange(p)
       \/ policy = "debounced" /\ TrackFileChangeDebounced(p)
    /\ UNCHANGED <<now, policy, repo, lastCall, searchVars, disk>>

----------------------------------------------------------------------------
\* The edit applier: handleEditBlock and performSearchReplace.

\* The write issued without waiting for trackFileChange.
AfterLocateNoTrack(filePath) ==
    "write"

\* trackFileChange going on to the repository root without asking isGitRepository.
AfterLocateAlwaysTrack(filePath) ==
    "root"

\* Where performSearchReplace goes once the search text is located: trackFileChange
\* is called, and outside a repository it returns without tracking.
AfterLocate(filePath) ==
    IF IsGitRepository(filePath) THEN "root" ELSE "write"

\* The same without the test for an absent search text.
PerformSearchReplaceNoCheck(p, filePath, block) ==
    LET contentStr == disk[filePath]
        searchIndex == IndexOf(contentStr, block.search)
    IN
    /\ pc' = [pc EXCEPT ![p] = AfterLocate(filePath)]
    /\ loc' = [loc EXCEPT ![p] =
           [Loc0 EXCEPT !.op = "edit_block", !.filePath = filePath, !.block = block,
                        !.contentStr = contentStr, !.searchIndex = searchIndex]]
    /\ hist' = [hist EXCEPT ![p].tracked = ~IsGitRepository(filePath)]

\* The file is read and the search text located; nothing more when it is absent.
PerformSearchReplace(p, filePath, block) ==
    LET contentStr == disk[filePath]
        searchIndex == IndexOf(contentStr, block.search)
        l == [Loc0 EXCEPT !.op = "edit_block", !.filePath = filePath, !.block = block,
                          !.contentStr = contentStr, !.searchIndex = searchIndex]
    IN
    IF searchIndex = -1
    THEN /\ pc' = [pc EXCEPT ![p] = "done"]
         /\ loc' = [loc EXCEPT ![p] = [l EXCEPT !.result = "not_found"]]
         /\ UNCHANGED hist
    ELSE /\ pc' = [pc EXCEPT ![p] = AfterLocate(filePath)]
         /\ loc' = [loc EXCEPT ![p] = l]
         /\ hist' = [hist EXCEPT ![p].tracked = ~IsGitRepository(filePath)]

HandleEditBlock(p, filePath, block) ==
    /\ pc[p] = "idle"
    /\ PerformSearchReplace(p, filePath, block)
    /\ UNCHANGED <<pendingChangesByRepo, lastTrackTimestamp, commitInProgress,
                   snapshotTimeoutId, timers, now, policy, repo, lastCall, searchVars, disk>>

\* trackFileChange has returned: the new content is written.
WriteFile(p) ==
    /\ pc[p] = "write"
    /\ disk' = [disk EXCEPT ![loc[p].filePath] =
                   NewContent(loc[p].contentStr, loc[p].searchIndex, loc[p].block)]
    /\ pc' = [pc EXCEPT ![p] = "done"]
    /\ loc' = [loc EXCEPT ![p].result = "applied"]
    /\ UNCHANGED <<pendingChangesByRepo, lastTrackTimestamp, commitInProgress,
                   snapshotTimeoutId, timers, now, policy, repo, lastCall, searchVars, hist>>

\* The text performSearchReplace answers with, as words, and its error mark.
ServerResult(l) ==
    IF l.result = "applied"
    THEN [text |-> <<"Successfully applied edit to">> \o l.filePath, isError |-> FALSE]
    ELSE [text |-> <<"Search content not found in">> \o l.filePath
                       \o <<"The file may have been modified since Claude last saw it.">>,
          isError |-> TRUE]

----------------------------------------------------------------------------
\* The explicit git operations.

RECURSIVE SumSizes(_, _)
SumSizes(pend, i) ==
    IF i > Len(pend) THEN 0 ELSE Cardinality(pend[i].files) + SumSizes(pend, i + 1)

CountPendingChanges ==
    SumSizes(pendingChangesByRepo, 1)

HasPendingChanges ==
    CountPendingChanges > 0

\* force_create_snapshots calling the sweep without asking hasPendingChanges.
HandleForceNoCheck(p) ==
    /\ pc[p] = "idle"
    /\ CreateSnapshotsForPendingChanges(p,
           [Loc0 EXCEPT !.op = "force_create_snapshots"], hist,
           pendingChangesByRepo, timers, <<"Manually triggered snapshot">>)
    /\ UNCHANGED <<pendingChangesByRepo, lastTrackTimestamp, now, policy, repo, lastCall, searchVars, disk>>

\* force_create_snapshots: nothing pending is reported; otherwise the sweep is called.
HandleForceCreateSnapshots(p) ==
    /\ pc[p] = "idle"
    /\ IF ~HasPendingChanges
       THEN /\ pc' = [pc EXCEPT ![p] = "done"]
            /\ loc' = [loc EXCEPT ![p] = [Loc0 EXCEPT !.op = "force_create_snapshots",
                                                      !.result = "no_pending"]]
            /\ UNCHANGED <<commitInProgress, snapshotTimeoutId, timers, hist>>
       ELSE CreateSnapshotsForPendingChanges(p,
                [Loc0 EXCEPT !.op = "force_create_snapshots"], hist,
                pendingChangesByRepo, timers, <<"Manually triggered snapshot">>)
    /\ UNCHANGED <<pendingChangesByRepo, lastTrackTimestamp, now, policy, repo, lastCall, searchVars, disk>>

\* create_snapshot: createSnapshot resolves the repository and calls commitChanges
\* for the one path; outside a repository, or when the root cannot be resolved,
\* there is no snapshot.
HandleCreateSnapshot(p, filePath) ==
    /\ pc[p] = "idle"
    /\ LET l == [Loc0 EXCEPT !.op = "create_snapshot", !.filePath = filePath] IN
       \/ /\ pc' = [pc EXCEPT ![p] = "done"]
          /\ loc' = [loc EXCEPT ![p] = [l EXCEPT !.result = "no_snapshot"]]
       \/ /\ IsGitRepository(filePath)
          /\ LET repoRoot == GetRepositoryRoot(filePath) IN
             /\ pc' = [pc EXCEPT ![p] = "csCommit"]
             /\ loc' = [loc EXCEPT ![p] =
                    [l EXCEPT !.repoRoot = repoRoot,
                              !.commitMessage = <<"message">>,
                              !.allChangedFiles = {RelativePath(filePath, repoRoot)}]]
    /\ UNCHANGED <<pendingChangesByRepo, lastTrackTimestamp, commitInProgress,
                   snapshotTimeoutId, timers, now, policy, repo, lastCall, searchVars, disk, hist>>

\* The same, with the repository's tracked files taken as committed and cleared.
CreateSnapshotCommitChangesClears(p) ==
    /\ pc[p] = "csCommit"
    /\ pc' = [pc EXCEPT ![p] = "done"]
    /\ loc' = [loc EXCEPT ![p] = [LeaveEntry(loc[p]) EXCEPT !.result = "snapshot_created"]]
    /\ hist' = MarkCheckpoint(hist, loc[p].repoRoot)
    /\ pendingChangesByRepo' = ClearTracked(pendingChangesByRepo, loc[p].repoRoot)
    /\ UNCHANGED <<lastTrackTimestamp, commitInProgress,
                   snapshotTimeoutId, timers, now, policy, repo, lastCall, searchVars, disk>>

\* commitChanges of createSnapshot has returned a hash or thrown.
CreateSnapshotCommitChanges(p) ==
    /\ pc[p] = "csCommit"
    /\ pc' = [pc EXCEPT ![p] = "done"]
    /\ \/ /\ loc' = [loc EXCEPT ![p] = [LeaveEntry(loc[p]) EXCEPT !.result = "snapshot_created"]]
          /\ hist' = MarkCheckpoint(hist, loc[p].repoRoot)
       \/ /\ loc' = [loc EXCEPT ![p] = [LeaveEntry(loc[p]) EXCEPT !.result = "no_snapshot"]]
          /\ UNCHANGED hist
    /\ UNCHANGED <<pendingChangesByRepo, lastTrackTimestamp, commitInProgress,
                   snapshotTimeoutId, timers, now, policy, repo, lastCall, searchVars, disk>>

\* get_file_history: the log of the file, or nothing when the file is outside a
\* repository, has no commit or the backend fails.  The call to the backend and
\* its answer are one step: neither touches the state of the server.
HandleGetFileHistory(p, filePath) ==
    /\ pc[p] = "idle"
    /\ pc' = [pc EXCEPT ![p] = "done"]
    /\ \E result \in {"history", "no_history"} :
           /\ result = "history" => IsGitRepository(filePath)
           /\ loc' = [loc EXCEPT ![p] = [Loc0 EXCEPT !.op = "get_file_history",
                                                     !.filePath = filePath,
                                                     !.result = result]]
    /\ UNCHANGED <<pendingChangesByRepo, lastTrackTimestamp, commitInProgress,
                   snapshotTimeoutId, timers, now, policy, repo, lastCall, searchVars, disk, hist>>

\* revert_file: the revert of a whole commit (git revert) or the checkout of one
\* file from a commit; outside a repository revertFile does nothing and returns.
\* The contents of files do not change under the edits sent here, so the file a
\* checkout brings back, and the tree a revert leaves, hold the content on disk.
HandleRevertFile(p, filePath, revertAllFiles) ==
    /\ pc[p] = "idle"
    /\ pc' = [pc EXCEPT ![p] = "done"]
    /\ \E result \in {"reverted_all", "reverted", "error"} :
           /\ result = "reverted_all" => revertAllFiles /\ IsGitRepository(filePath)
           /\ result = "reverted" => ~revertAllFiles
           /\ result = "error" => revertAllFiles \/ IsGitRepository(filePath)
           /\ loc' = [loc EXCEPT ![p] = [Loc0 EXCEPT !.op = "revert_file",
                                                     !.filePath = filePath,
                                                     !.result = result]]
    /\ UNCHANGED <<pendingChangesByRepo, lastTrackTimestamp, commitInProgress,
                   snapshotTimeoutId, timers, now, policy, repo, lastCall, searchVars, disk, hist>>

\* The result goes back to the dispatcher; the invocation is over.
Return(p) ==
    /\ pc[p] = "done"
    /\ pc' = [pc EXCEPT ![p] = "idle"]
    /\ loc' = [loc EXCEPT ![p] = Loc0]
    /\ hist' = [hist EXCEPT ![p] = Hist0]
    /\ UNCHANGED <<pendingChangesByRepo, lastTrackTimestamp, commitInProgress,
                   snapshotTimeoutId, timers, now, policy, repo, lastCall, searchVars, disk>>

----------------------------------------------------------------------------
\* The adapter's operations with the repositories followed: what git does to the
\* commits, the index and the working tree for the commands the adapter runs.
\* A commit is named by its position in the log.  The sweeps and the edits above
\* leave the backend's answers open and do not follow the repositories.

HeadTree(r) ==
    r.log[Len(r.log)]

\* The paths in which commit c differs from its parent.
ChangedBy(r, c) ==
    {path \in DOMAIN r.log[c] : r.log[c][path] # r.log[c - 1][path]}

\* git revert of commit c on top of the head: a path still as c left it goes back
\* to what the parent of c had, any other path stays as the head has it.
RevertedTree(r, c) ==
    [path \in DOMAIN HeadTree(r) |->
        IF path \in ChangedBy(r, c) /\ HeadTree(r)[path] = r.log[c][path]
        THEN r.log[c - 1][path]
        ELSE HeadTree(r)[path]]

\* The working tree of a repository, by relative path.
WorkTree(repoRoot) ==
    [path \in StatusPaths(repoRoot) |-> disk[<<repoRoot>> \o path]]

\* git log -- path: the commits that changed the path, newest first.
RECURSIVE LogOf(_, _, _)
LogOf(r, path, c) ==
    IF c = 0 THEN <<>>
    ELSE IF c = 1 \/ r.log[c][path] # r.log[c - 1][path]
         THEN <<c>> \o LogOf(r, path, c - 1)
         ELSE LogOf(r, path, c - 1)

\* --max-count
FirstN(seq, n) ==
    IF Len(seq) <= n THEN seq ELSE SubSeq(seq, 1, n)

\* The answer of a call, kept until the next call.
Answer(op, filePath, commitHash, backend, result, history) ==
    lastCall' = [op |-> op, filePath |-> filePath, commitHash |-> commitHash,
                 backend |-> backend, result |-> result, history |-> history]

\* write_file: the content replaces the file's.
WriteFileTool(filePath, content) ==
    /\ disk' = [disk EXCEPT ![filePath] = content]
    /\ Answer("write_file", filePath, 0, "none", "written", <<>>)
    /\ UNCHANGED <<trackerVars, searchVars, pc, loc, hist, repo>>

\* create_snapshot: git add of the one path and git commit.  git commit fails when
\* the index holds nothing new; createSnapshot turns every failure into null.
CreateSnapshot(filePath, fails) ==
    /\ IF ~IsGitRepository(filePath)
       THEN /\ Answer("create_snapshot", filePath, 0, "skipped", "no_snapshot", <<>>)
            /\ UNCHANGED repo
       ELSE LET repoRoot == GetRepositoryRoot(filePath)
                relativePath == RelativePath(filePath, repoRoot)
                r == repo[repoRoot]
                added == [r.index EXCEPT ![relativePath] = disk[filePath]]
            IN
            IF fails
            THEN /\ Answer("create_snapshot", filePath, 0, "failed", "no_snapshot", <<>>)
                 /\ UNCHANGED repo
            ELSE IF added = HeadTree(r)
            THEN /\ Answer("create_snapshot", filePath, 0, "failed", "no_snapshot", <<>>)
                 /\ repo' = [repo EXCEPT ![repoRoot].index = added]
            ELSE /\ Len(r.log) < MaxCommits
                 /\ Answer("create_snapshot", filePath, Len(r.log) + 1, "ok",
                           "snapshot_created", <<>>)
                 /\ repo' = [repo EXCEPT ![repoRoot] =
                                 [log |-> Append(r.log, added), index |-> added]]
    /\ UNCHANGED <<trackerVars, searchVars, pc, loc, hist, disk>>

\* A revert of one file that records the restored content as a new commit.
RevertFileCommits(filePath, commitHash, fails) ==
    /\ IsGitRepository(filePath)
    /\ LET repoRoot == GetRepositoryRoot(filePath)
           relativePath == RelativePath(filePath, repoRoot)
           r == repo[repoRoot]
           tree == [HeadTree(r) EXCEPT ![relativePath] =
                       r.log[commitHash][relativePath]]
       IN
       /\ commitHash <= Len(r.log) /\ Len(r.log) < MaxCommits
       /\ Answer("revert_file", filePath, commitHash, "ok", "reverted", <<>>)
       /\ repo' = [repo EXCEPT ![repoRoot] = [log |-> Append(r.log, tree), index |-> tree]]
       /\ disk' = [disk EXCEPT ![filePath] = r.log[commitHash][relativePath]]
    /\ UNCHANGED <<trackerVars, searchVars, pc, loc, hist>>

\* A revert of one file done as revertToCommit does it: git reset --hard.
RevertFileHardReset(filePath, commitHash, fails) ==
    /\ IsGitRepository(filePath)
    /\ LET repoRoot == GetRepositoryRoot(filePath)
           r == repo[repoRoot]
       IN
       /\ commitHash <= Len(r.log)
       /\ Answer("revert_file", filePath, commitHash, "ok", "reverted", <<>>)
       /\ repo' = [repo EXCEPT ![repoRoot] =
                       [log |-> SubSeq(r.log, 1, commitHash), index |-> r.log[commitHash]]]
       /\ disk' = [f \in Paths |->
                       IF f[1] = repoRoot THEN r.log[commitHash][Tail(f)] ELSE disk[f]]
    /\ UNCHANGED <<trackerVars, searchVars, pc, loc, hist>>

\* revert_file without revertAllFiles: revertFile runs git checkout of the path from
\* the commit, which puts that content in the index and in the working tree; outside
\* a repository revertFile runs nothing and returns, and the handler reports the
\* revert as done.
RevertFile(filePath, commitHash, fails) ==
    /\ IF ~IsGitRepository(filePath)
       THEN /\ Answer("revert_file", filePath, commitHash, "skipped", "reverted", <<>>)
            /\ UNCHANGED <<repo, disk>>
       ELSE LET repoRoot == GetRepositoryRoot(filePath)
                relativePath == RelativePath(filePath, repoRoot)
                r == repo[repoRoot]
            IN
            IF fails \/ commitHash > Len(r.log)
            THEN /\ Answer("revert_file", filePath, commitHash, "failed", "error", <<>>)
                 /\ UNCHANGED <<repo, disk>>
            ELSE /\ Answer("revert_file", filePath, commitHash, "ok", "reverted", <<>>)
                 /\ repo' = [repo EXCEPT ![repoRoot].index =
                                 [r.index EXCEPT ![relativePath] =
                                     r.log[commitHash][relativePath]]]
                 /\ disk' = [disk EXCEPT ![filePath] = r.log[commitHash][relativePath]]
    /\ UNCHANGED <<trackerVars, searchVars, pc, loc, hist>>

\* A revert of a commit that drops the commit and those after it from the log.
RevertCommitDropsHistory(filePath, commitHash, fails) ==
    /\ commitHash > 1
    /\ IsGitRepository(filePath)
    /\ LET repoRoot == GetRepositoryRoot(filePath)
           r == repo[repoRoot]
       IN
       /\ commitHash <= Len(r.log)
       /\ Answer("revert_file", filePath, commitHash, "ok", "reverted_all", <<>>)
       /\ repo' = [repo EXCEPT ![repoRoot] =
                       [log |-> SubSeq(r.log, 1, commitHash - 1),
                        index |-> r.log[commitHash - 1]]]
       /\ disk' = [f \in Paths |->
                       IF f[1] = repoRoot THEN r.log[commitHash - 1][Tail(f)] ELSE disk[f]]
    /\ UNCHANGED <<trackerVars, searchVars, pc, loc, hist>>

\* revert_file with revertAllFiles: revertCommit runs git revert --no-edit in the
\* repository of the path.  git refuses when the index or a file it has to rewrite
\* differs from the head, and when nothing is left to undo; otherwise it commits
\* the reverted tree and checks it out.
RevertCommit(filePath, commitHash, fails) ==
    /\ commitHash > 1
    /\ IF ~IsGitRepository(filePath)
       THEN /\ Answer("revert_file", filePath, commitHash, "skipped", "error", <<>>)
            /\ UNCHANGED <<repo, disk>>
       ELSE LET repoRoot == GetRepositoryRoot(filePath)
                r == repo[repoRoot]
            IN
            IF \/ fails
               \/ commitHash > Len(r.log)
               \/ r.index # HeadTree(r)
               \/ \E path \in ChangedBy(r, commitHash) :
                      WorkTree(repoRoot)[path] # HeadTree(r)[path]
               \/ RevertedTree(r, commitHash) = HeadTree(r)
            THEN /\ Answer("revert_file", filePath, commitHash, "failed", "error", <<>>)
                 /\ UNCHANGED <<repo, disk>>
            ELSE LET tree == RevertedTree(r, commitHash) IN
                 /\ Len(r.log) < MaxCommits
                 /\ Answer("revert_file", filePath, commitHash, "ok", "reverted_all", <<>>)
                 /\ repo' = [repo EXCEPT ![repoRoot] =
                                 [log |-> Append(r.log, tree), index |-> tree]]
                 /\ disk' = [f \in Paths |->
                                 IF f[1] = repoRoot /\ Tail(f) \in ChangedBy(r, commitHash)
                                 THEN tree[Tail(f)]
                                 ELSE disk[f]]
    /\ UNCHANGED <<trackerVars, searchVars, pc, loc, hist>>

\* get_file_history: getFileHistory answers the parsed log, and the empty list
\* outside a repository and on every failure; the handler reports an empty list
\* as no history.
GetFileHistory(filePath, maxCount, fails) ==
    /\ IF ~IsGitRepository(filePath)
       THEN Answer("get_file_history", filePath, 0, "skipped", "no_history", <<>>)
       ELSE LET repoRoot == GetRepositoryRoot(filePath)
                r == repo[repoRoot]
                history == FirstN(LogOf(r, RelativePath(filePath, repoRoot), Len(r.log)),
                                  maxCount)
            IN
            IF fails
            THEN Answer("get_file_history", filePath, 0, "failed", "no_history", <<>>)
            ELSE Answer("get_file_history", filePath, 0, "ok",
                        IF history = <<>> THEN "no_history" ELSE "history", history)
    /\ UNCHANGED <<trackerVars, searchVars, pc, loc, hist, repo, disk>>

----------------------------------------------------------------------------
\* withTimeout and the search handler that uses it.  The value of the operation is
\* "matches" or "empty" (no match); the fallback the handler passes is "empty".
\* The continuation of the handler runs as soon as withTimeout resolves, before
\* any other callback.

DefaultValue == "empty"

\* resolve(value) with no test of isCompleted.
SettleAlways(s, value) ==
    [s EXCEPT !.isCompleted = TRUE, !.resolved = Append(@, value)]

\* if (!isCompleted) { isCompleted = true; resolve(value) }
SettleOnce(s, value) ==
    IF s.isCompleted
    THEN s
    ELSE [s EXCEPT !.isCompleted = TRUE, !.resolved = Append(@, value)]

\* clearTimeout(timeoutId) in the callbacks of the operation.
ClearTimer(s) ==
    IF s.isCompleted THEN s.timer ELSE "cleared"

\* The handler leaving the registered subprocess alone.
NoTermination(S, results, handle) ==
    [search |-> S, handle |-> handle]

\* if (results.length === 0 && currentSearchProcess) { kill(); delete }
TerminateSearchProcess(S, results, handle) ==
    IF results = "empty" /\ handle # NoProcess
    THEN [search |-> [S EXCEPT ![handle].process =
                         IF @ = "running" THEN "killed" ELSE @],
          handle |-> NoProcess]
    ELSE [search |-> S, handle |-> handle]

\* The rest of handleSearchCode once withTimeout has resolved with results.
SearchResumes(p, S, results, handle) ==
    LET after == TerminateSearchProcess(S, results, handle) IN
    /\ search' = after.search
    /\ currentSearchProcess' = after.handle
    /\ pc' = [pc EXCEPT ![p] = "done"]
    /\ loc' = [loc EXCEPT ![p].result =
                   IF results = "empty" THEN "no_matches_or_timed_out" ELSE "matches"]

\* search_code: the search is started and handed to withTimeout, which sets its
\* timer.  An invocation starts a search only when its last one has completed.
HandleSearchCode(p) ==
    /\ pc[p] = "idle"
    /\ search[p].operation # "pending"
    /\ pc' = [pc EXCEPT ![p] = "search"]
    /\ loc' = [loc EXCEPT ![p] = [Loc0 EXCEPT !.op = "search_code"]]
    /\ search' = [search EXCEPT ![p] =
                      [Search0 EXCEPT !.operation = "pending", !.timer = "set"]]
    /\ UNCHANGED <<trackerVars, currentSearchProcess, disk, hist, repo, lastCall>>

\* The search spawns its subprocess and registers it in the global.
RegisterSearchProcess(p) ==
    /\ search[p].operation = "pending"
    /\ search[p].process = "none"
    /\ search' = [search EXCEPT ![p].process = "running"]
    /\ currentSearchProcess' = p
    /\ UNCHANGED <<trackerVars, pc, loc, disk, hist, repo, lastCall>>

\* The operation completes with a value or fails; its subprocess is over, and the
\* search may or may not take its registration back.  The callbacks of withTimeout
\* run: the first completion clears the timer and resolves, a later one does nothing.
OperationCompletes(p, outcome, unregisters) ==
    LET s == [search[p] EXCEPT !.operation = outcome,
                               !.process = IF @ = "running" THEN "exited" ELSE @,
                               !.timer = ClearTimer(search[p])]
        value == IF outcome = "rejected" THEN DefaultValue ELSE outcome
        S == [search EXCEPT ![p] = SettleOnce(s, value)]
        handle == IF unregisters /\ currentSearchProcess = p
                  THEN NoProcess ELSE currentSearchProcess
    IN
    /\ search[p].operation = "pending"
    /\ IF search[p].isCompleted
       THEN /\ search' = S
            /\ currentSearchProcess' = handle
            /\ UNCHANGED <<pc, loc>>
       ELSE SearchResumes(p, S, value, handle)
    /\ UNCHANGED <<trackerVars, disk, hist, repo, lastCall>>

\* The deadline passes: the callback of setTimeout resolves with the fallback
\* unless the operation has completed.
TimeoutFires(p) ==
    LET s == [search[p] EXCEPT !.timer = "fired"]
        S == [search EXCEPT ![p] = SettleOnce(s, DefaultValue)]
    IN
    /\ search[p].timer = "set"
    /\ IF search[p].isCompleted
       THEN /\ search' = S
            /\ UNCHANGED <<currentSearchProcess, pc, loc>>
       ELSE SearchResumes(p, S, DefaultValue, currentSearchProcess)
    /\ UNCHANGED <<trackerVars, disk, hist, repo, lastCall>>

----------------------------------------------------------------------------
\* The timer of the variant that waits for a quiet window.

\* A timer that is due fires: after a full window without enrollment its callback
\* calls the sweep, otherwise it sets the timer anew.  The handle keeps naming the
\* timer that has fired.
TimerFires(t) ==
    /\ t \in timers
    /\ t <= now
    /\ pc[TimerCallback] = "idle"
    /\ LET tm == timers \ {t}
           timeSinceLastTrack == now - lastTrackTimestamp
           scheduled == ScheduleSnapshotCreation(tm, snapshotTimeoutId)
       IN
       IF timeSinceLastTrack >= DEFAULT_BATCH_TIMEOUT
       THEN CreateSnapshotsForPendingChanges(TimerCallback,
                [Loc0 EXCEPT !.op = "timer"], hist, pendingChangesByRepo, tm,
                <<"Auto-snapshot after inactivity period">>)
       ELSE /\ timers' = scheduled.timers
            /\ snapshotTimeoutId' = scheduled.handle
            /\ UNCHANGED <<commitInProgress, pc, loc, hist>>
    /\ UNCHANGED <<pendingChangesByRepo, lastTrackTimestamp, now, policy, repo, lastCall, searchVars, disk>>

Timer ==
    \E t \in timers : TimerFires(t)

\* The clock moves on.
Tick ==
    /\ policy = "debounced"
    /\ now < MaxTime
    /\ now' = now + 1
    /\ UNCHANGED <<pendingChangesByRepo, lastTrackTimestamp, commitInProgress,
                   snapshotTimeoutId, timers, policy, repo, lastCall, searchVars, disk, pc, loc, hist>>

----------------------------------------------------------------------------
\* The server with the tracker that calls the sweep at once.
Next ==
    \/ \E p \in Invocations, call \in EditCalls : HandleEditBlock(p, call[1], call[2])
    \/ \E p \in Procs : TrackGetRepositoryRoot(p)
    \/ \E p \in Procs : GetGitStatus(p)
    \/ \E p \in Procs : CommitChanges(p)
    \/ \E p \in Procs : WriteFile(p)
    \/ \E p \in Invocations : HandleForceCreateSnapshots(p)
    \/ \E p \in Invocations, filePath \in SnapshotCalls : HandleCreateSnapshot(p, filePath)
    \/ \E p \in Procs : CreateSnapshotCommitChanges(p)
    \/ \E p \in Procs : Return(p)

Spec == Init /\ [][Next]_vars

\* The server with either tracker.
NextPolicies ==
    \/ Next
    \/ Timer
    \/ Tick

SpecPolicies == InitPolicies /\ [][NextPolicies]_vars

\* The server with the history and revert operations as well.
NextGitOps ==
    \/ Next
    \/ \E p \in Invocations, filePath \in SnapshotCalls : HandleGetFileHistory(p, filePath)
    \/ \E p \in Invocations, filePath \in SnapshotCalls, revertAllFiles \in BOOLEAN :
           HandleRevertFile(p, filePath, revertAllFiles)

SpecGitOps == Init /\ [][NextGitOps]_vars

\* The commit message of one repository of a sweep, for every message a caller can
\* pass and every set of tracked files, under either tracker.
Messages == {NoMessage, <<"Snapshot for", "a">>, <<"Manually triggered snapshot">>,
             <<"Auto-snapshot after inactivity period">>}
FileArrays == (SUBSET {<<"a">>, <<"b">>, <<"c">>}) \ {{}}

InitMessages ==
    /\ pendingChangesByRepo = <<>>
    /\ lastTrackTimestamp = 0
    /\ commitInProgress = FALSE
    /\ snapshotTimeoutId = NoTimer
    /\ timers = {}
    /\ policy \in Policies
    /\ now = 1
    /\ disk = [f \in Paths |-> InitialContent]
    /\ hist = [p \in Procs |-> Hist0]
    /\ repo = Repo0
    /\ lastCall = NoCall
    /\ search = [p \in Procs |-> Search0]
    /\ currentSearchProcess = NoProcess
    /\ \E message \in Messages, fileArray \in FileArrays :
           /\ pc = [p \in Procs |-> IF p = 1 THEN "message" ELSE "idle"]
           /\ loc = [p \in Procs |->
                        IF p = 1
                        THEN [Loc0 EXCEPT !.op = "sweep", !.message = message,
                                          !.fileArray = fileArray]
                        ELSE Loc0]

\* const commitMessage = message || (...)
BuildCommitMessage(p) ==
    /\ pc[p] = "message"
    /\ pc' = [pc EXCEPT ![p] = "done"]
    /\ loc' = [loc EXCEPT ![p].commitMessage =
                   IF policy = "immediate"
                   THEN CommitMessage(loc[p].message, loc[p].fileArray)
                   ELSE CommitMessageDebounced(loc[p].message, loc[p].fileArray)]
    /\ UNCHANGED <<trackerVars, searchVars, disk, hist, repo, lastCall>>

NextMessages ==
    \/ \E p \in Procs : BuildCommitMessage(p)
    \/ \E p \in Procs : Return(p)

SpecMessages == InitMessages /\ [][NextMessages]_vars

\* Searches under their deadlines.
NextSearch ==
    \/ \E p \in Invocations : HandleSearchCode(p)
    \/ \E p \in Invocations : RegisterSearchProcess(p)
    \/ \E p \in Invocations, outcome \in {"matches", "empty", "rejected"},
             unregisters \in BOOLEAN : OperationCompletes(p, outcome, unregisters)
    \/ \E p \in Invocations : TimeoutFires(p)
    \/ \E p \in Procs : Return(p)

SpecSearch == Init /\ [][NextSearch]_vars

\* A timer that is set fires when its deadline comes.
SpecSearchDeadline == SpecSearch /\ \A p \in Invocations : WF_vars(TimeoutFires(p))

\* The git tools and write_file on the followed repositories, one call after another.
RepoFilesCalled == {<<"r1", "a">>, <<"r1", "b">>, <<"tmp", "d">>}
RepoContents == {<<"x">>, <<"y">>}

NextRepo ==
    \/ \E filePath \in RepoFilesCalled, content \in RepoContents :
           WriteFileTool(filePath, content)
    \/ \E filePath \in RepoFilesCalled, fails \in BOOLEAN : CreateSnapshot(filePath, fails)
    \/ \E filePath \in RepoFilesCalled, commitHash \in 1..MaxCommits, fails \in BOOLEAN :
           RevertFile(filePath, commitHash, fails)
    \/ \E filePath \in RepoFilesCalled, commitHash \in 1..MaxCommits, fails \in BOOLEAN :
           RevertCommit(filePath, commitHash, fails)
    \/ \E filePath \in RepoFilesCalled, maxCount \in 1..MaxCommits, fails \in BOOLEAN :
           GetFileHistory(filePath, maxCount, fails)

SpecRepo == Init /\ [][NextRepo]_vars

\* The server applying edits that change content, one at a time, to files of any
\* content.
InitEdits ==
    /\ pendingChangesByRepo = <<>>
    /\ lastTrackTimestamp = 0
    /\ commitInProgress = FALSE
    /\ snapshotTimeoutId = NoTimer
    /\ timers = {}
    /\ policy = "immediate"
    /\ now = 1
    /\ disk \in [Paths -> Contents]
    /\ \A f \in Paths \ EditFiles : disk[f] = InitialContent
    /\ pc = [p \in Procs |-> "idle"]
    /\ loc = [p \in Procs |-> Loc0]
    /\ hist = [p \in Procs |-> Hist0]
    /\ repo = Repo0
    /\ lastCall = NoCall
    /\ search = [p \in Procs |-> Search0]
    /\ currentSearchProcess = NoProcess

\* An edit is sent when no other is in flight and the content it can leave behind
\* is no longer than MaxLen.
EditContent ==
    \E p \in Invocations, filePath \in EditFiles, block \in EditBlocks :
        /\ \A q \in Invocations : pc[q] = "idle"
        /\ Len(disk[filePath]) + Len(block.replace) - Len(block.search) <= MaxLen
        /\ HandleEditBlock(p, filePath, block)

NextEdits ==
    \/ EditContent
    \/ \E p \in Procs : TrackGetRepositoryRoot(p)
    \/ \E p \in Procs : GetGitStatus(p)
    \/ \E p \in Procs : CommitChanges(p)
    \/ \E p \in Procs : WriteFile(p)
    \/ \E p \in Procs : Return(p)

SpecEdits == InitEdits /\ [][NextEdits]_vars

----------------------------------------------------------------------------
\* The edit applier with the file layer followed: validatePath, readFileFromDisk
\* and writeFile, with their deadlines.  The first read of handleEditBlock, whose
\* result is dropped and which never throws, is taken together with the read of
\* performSearchReplace.

\* process.cwd(), outside every repository.
Cwd == "tmp"

\* A path given relative to the working directory, and the files edited here.
RelativeFile == <<"e">>

FilesCalled == {<<"r1", "a">>, RelativeFile}

\* The size limit of a read, in characters.
MAX_SIZE == 2

\* What a read yields in place of the content.
TimedOutMessage == <<"Operation timed out after 30 seconds">>

TooLargeMessage == <<"File too large">>

\* No such file.
Missing == <<"ENOENT">>

\* path.resolve(process.cwd(), expandedPath)
Resolve(requestedPath) ==
    IF Len(requestedPath) = 1 THEN <<Cwd>> \o requestedPath ELSE requestedPath

\* The string validatePath returns when its deadline has passed.
ErrorIndicator(requestedPath) ==
    <<"__ERROR__: Path validation timed out after 10 seconds for:">> \o requestedPath

\* validatePath: the resolved path, or the error indicator.
ValidatePath(requestedPath, validation) ==
    IF validation = "timed_out"
    THEN ErrorIndicator(requestedPath)
    ELSE Resolve(requestedPath)

\* The error indicator is itself a relative path: with a bare file name behind it
\* it names a file of the working directory (the indicator and the name being the
\* two pieces of one file name), with a path behind it a directory that does not
\* exist.
IsErrorIndicator(validPath) ==
    validPath[1] = ErrorIndicator(<<>>)[1]

DirectoryExists(validPath) ==
    IsErrorIndicator(validPath) => Len(validPath) = 2

FsPath(validPath) ==
    IF IsErrorIndicator(validPath) THEN <<Cwd>> \o validPath ELSE validPath

ErrorFile == FsPath(ErrorIndicator(RelativeFile))

FilePaths == {Resolve(f) : f \in FilesCalled} \cup {ErrorFile}

\* readFileFromDisk without metadata: the message of the size limit, the content,
\* or withTimeout's default when the read has failed or has not ended in time
\* (as it does when the path validation has timed out).
ReadFileFromDisk(filePath, outcome) ==
    LET validPath == Resolve(filePath) IN
    IF outcome = "timed_out" \/ disk[validPath] = Missing
    THEN TimedOutMessage
    ELSE IF Len(disk[validPath]) > MAX_SIZE
         THEN TooLargeMessage
         ELSE disk[validPath]

ReadOutcomes == {"read", "timed_out"}

Validations == {"valid", "timed_out"}

FileBlocks ==
    {[search |-> <<"x">>, replace |-> <<>>],
     [search |-> <<"y">>, replace |-> <<"y", "y">>],
     [search |-> <<>>, replace |-> <<"y">>]}

InitFiles ==
    /\ pendingChangesByRepo = <<>>
    /\ lastTrackTimestamp = 0
    /\ commitInProgress = FALSE
    /\ snapshotTimeoutId = NoTimer
    /\ timers = {}
    /\ policy = "immediate"
    /\ now = 1
    /\ disk = [f \in FilePaths |-> IF f = ErrorFile THEN Missing ELSE <<"x", "y">>]
    /\ pc = [p \in Procs |-> "idle"]
    /\ loc = [p \in Procs |-> Loc0]
    /\ hist = [p \in Procs |-> Hist0]
    /\ repo = Repo0
    /\ lastCall = NoCall
    /\ search = [p \in Procs |-> Search0]
    /\ currentSearchProcess = NoProcess

\* performSearchReplace up to trackFileChange, on what readFile has returned.
PerformSearchReplaceRead(p, filePath, block, outcome) ==
    LET contentStr == ReadFileFromDisk(filePath, outcome)
        searchIndex == IndexOf(contentStr, block.search)
        l == [Loc0 EXCEPT !.op = "edit_block", !.filePath = filePath, !.block = block,
                          !.contentStr = contentStr, !.searchIndex = searchIndex]
    IN
    IF searchIndex = -1
    THEN /\ pc' = [pc EXCEPT ![p] = "done"]
         /\ loc' = [loc EXCEPT ![p] = [l EXCEPT !.result = "not_found"]]
         /\ UNCHANGED hist
    ELSE /\ pc' = [pc EXCEPT ![p] = AfterLocate(filePath)]
         /\ loc' = [loc EXCEPT ![p] = l]
         /\ hist' = [hist EXCEPT ![p].tracked = ~IsGitRepository(filePath)]

\* An edit is taken when the content it can leave behind is no longer than MaxLen.
\* Every invocation applies one edit: MaxProcs edits in all.
HandleEditBlockRead(p, filePath, block, outcome) ==
    /\ pc[p] = "idle"
    /\ Len(ReadFileFromDisk(filePath, outcome)) + Len(block.replace) - Len(block.search)
           <= MaxLen
    /\ PerformSearchReplaceRead(p, filePath, block, outcome)
    /\ UNCHANGED <<trackerVars, repo, lastCall, searchVars, disk>>

\* trackFileChange has returned: writeFile validates the path and writes to what
\* validatePath has returned; a failure of the write goes up to the dispatcher,
\* which answers with an error.
WriteFileValidated(p, validation) ==
    LET validPath == ValidatePath(loc[p].filePath, validation)
        newContent == NewContent(loc[p].contentStr, loc[p].searchIndex, loc[p].block)
    IN
    /\ pc[p] = "write"
    /\ pc' = [pc EXCEPT ![p] = "done"]
    /\ IF DirectoryExists(validPath)
       THEN /\ disk' = [disk EXCEPT ![FsPath(validPath)] = newContent]
            /\ loc' = [loc EXCEPT ![p].result = "applied"]
       ELSE /\ loc' = [loc EXCEPT ![p].result = "error"]
            /\ UNCHANGED disk
    /\ UNCHANGED <<trackerVars, repo, lastCall, searchVars, hist>>

NextFiles ==
    \/ \E p \in Invocations, filePath \in FilesCalled, block \in FileBlocks,
          outcome \in ReadOutcomes : HandleEditBlockRead(p, filePath, block, outcome)
    \/ \E p \in Procs : TrackGetRepositoryRoot(p)
    \/ \E p \in Procs : GetGitStatus(p)
    \/ \E p \in Procs : CommitChanges(p)
    \/ \E p \in Invocations, validation \in Validations : WriteFileValidated(p, validation)

SpecFiles == InitFiles /\ [][NextFiles]_vars

\* The backend answers every call made to it, with a result or with a failure.
BackendReturns ==
    \E p \in Procs : GetGitStatus(p) \/ CommitChanges(p)

\* Last value of the clock where the backend's answers are fair.
MaxTimeReturns == 3

TickReturns ==
    /\ now < MaxTimeReturns
    /\ Tick

\* The server with either tracker, the clock stopping at MaxTimeReturns.
NextBackendReturns ==
    \/ Next
    \/ Timer
    \/ TickReturns

SpecBackendReturns ==
    InitPolicies /\ [][NextBackendReturns]_vars /\ WF_vars(BackendReturns)

----------------------------------------------------------------------------
\* Properties.

InSweep(p) ==
    pc[p] \in {"status", "commit"}

CommitOutstanding(p) ==
    pc[p] \in {"commit", "csCommit"}

StepOf(p) ==
    pc'[p] # pc[p] \/ loc'[p] # loc[p]

Applied(p) ==
    pc[p] = "done" /\ loc[p].op = "edit_block" /\ loc[p].result = "applied"

\* C1: under the immediate policy every edit that has written a file of a
\* repository had a commit of that repository succeed between its enrollment
\* and its write.
C1_CheckpointBeforeWrite ==
    \A p \in Procs :
        (Applied(p) /\ IsGitRepository(loc[p].filePath)) => hist[p].checkpointed

\* C2: under either tracker, at most one call of the sweep (from an enrollment,
\* from the timer or from a forced flush) is inside the section guarded by
\* commitInProgress, and the flag is set exactly while one is.
C2_SingleFlight ==
    /\ Cardinality({p \in Procs : InSweep(p)}) <= 1
    /\ commitInProgress <=> (\E p \in Procs : InSweep(p))

\* The sweep called by the timer is inside the section, with two repositories
\* pending, and a second trigger has been dropped meanwhile.
C2_Witness ==
    /\ InSweep(TimerCallback)
    /\ \E q \in Invocations : hist[q].sweep = "dropped"
    /\ \A r \in Repos : Get(pendingChangesByRepo, r) # {}

\* C3 as stated: with a file enrolled and a second trigger dropped by the running
\* sweep, the one commit the running sweep invokes for the repository names the
\* enrolled file, and the dropped trigger invokes none.
C3_OneCommitWithEnrolledFile ==
    \A p, q \in Procs :
        (p # q /\ pc[p] = "commit" /\ hist[q].sweep = "dropped") =>
            /\ ~InSweep(q)
            /\ loc[p].fileArray \subseteq loc[p].allChangedFiles

\* C3 as amended: the dropped trigger runs no sweep; the running sweep visits the
\* repository once, its enrolled files stay pending while its status query or
\* commit is outstanding, and the commit's path list is the status union, or the
\* enrolled files when that union is empty.
C3_OneSweepEnrollmentKept ==
    \A p, q \in Procs :
        (p # q /\ InSweep(p) /\ hist[q].sweep = "dropped") =>
            /\ ~InSweep(q)
            /\ \A i \in 1..Len(loc[p].entries) : loc[p].entries[i] # loc[p].repoRoot
            /\ loc[p].fileArray # {}
            /\ loc[p].fileArray \subseteq Get(pendingChangesByRepo, loc[p].repoRoot)
            /\ pc[p] = "commit" =>
                   loc[p].allChangedFiles =
                       IF loc[p].status = {} THEN loc[p].fileArray ELSE loc[p].status

\* One file is enrolled, its commit is outstanding and a second trigger was dropped.
C3_Witness ==
    \E p, q \in Procs :
        /\ p # q /\ pc[p] = "commit" /\ hist[q].sweep = "dropped"
        /\ Cardinality(loc[p].fileArray) = 1
        /\ loc[p].fileArray \subseteq loc[p].allChangedFiles

\* C4: the clearing of a repository's set by the running sweep removes no file
\* that was enrolled after the sweep took the repository's file list.
C4_EnrolledDuringSweepKept ==
    [][\A p \in Procs :
          InSweep(p) =>
              (Get(pendingChangesByRepo, loc[p].repoRoot) \ loc[p].fileArray)
                  \subseteq Get(pendingChangesByRepo', loc[p].repoRoot)]_vars

\* C5: a step of the sweep clears the set of the repository whose commit succeeded
\* and no other, changes no set when the status query or the commit failed, and
\* goes on with the next repository that has a file pending, to the end of the
\* entries.
C5_ClearsExactlyCommitted ==
    [][\A p \in Procs :
          (InSweep(p) /\ StepOf(p)) =>
              /\ (pc[p] = "commit" /\ hist'[p].last = "committed") =>
                     pendingChangesByRepo' =
                         Put(pendingChangesByRepo, loc[p].repoRoot, {})
              /\ (pc[p] = "status" \/ hist'[p].last = "failed") =>
                     pendingChangesByRepo' = pendingChangesByRepo
              /\ hist'[p].last \in {"committed", "failed"} \/ pc'[p] = "commit"
              /\ pc'[p] = "commit" =>
                     pc[p] = "status" /\ loc'[p].repoRoot = loc[p].repoRoot
              /\ pc'[p] # "commit" =>
                     LET nx == SkipEmpty(loc[p].entries, pendingChangesByRepo') IN
                     IF nx = <<>>
                     THEN ~(pc'[p] \in {"status", "commit"}) /\ hist'[p].sweep = "returned"
                     ELSE /\ pc'[p] = "status"
                          /\ loc'[p].repoRoot = Head(nx)
                          /\ loc'[p].fileArray = Get(pendingChangesByRepo', Head(nx))]_vars

\* The sweep is at its second repository after the first one failed.
C5_Witness ==
    \E p \in Procs :
        /\ InSweep(p) /\ hist[p].last = "failed"
        /\ Get(pendingChangesByRepo, loc[p].repoRoot) # {}
        /\ \E r \in Repos : r # loc[p].repoRoot /\ Get(pendingChangesByRepo, r) # {}

\* C6: whenever an edit is at its write, or has written, its call of
\* trackFileChange has returned.
C6_EnrollBeforeWrite ==
    \A p \in Procs : (pc[p] = "write" \/ Applied(p)) => hist[p].tracked

\* An edit of a repository file is at its write while another invocation runs.
C6_Witness ==
    \E p, q \in Procs :
        /\ p # q /\ pc[p] = "write" /\ loc[p].trackedRoot # NoRepo
        /\ pc[q] \notin {"idle", "done"}

\* C7 as stated: the path list handed to commit is the union of the status lists
\* and the repository's pending files.
C7_PathsAreStatusAndPending ==
    \A p \in Procs :
        pc[p] = "commit" =>
            loc[p].allChangedFiles = loc[p].status \cup loc[p].fileArray

\* C7 as amended: the path list is the union of the status lists when that union
\* is not empty, and the repository's pending files when it is.
C7_PathsAreStatusElsePending ==
    \A p \in Procs :
        pc[p] = "commit" =>
            /\ loc[p].status # {} => loc[p].allChangedFiles = loc[p].status
            /\ loc[p].status = {} => loc[p].allChangedFiles = loc[p].fileArray
            /\ loc[p].fileArray # {}

\* The status lists name a file and miss a pending one.
C7_Witness ==
    \E p \in Procs :
        /\ pc[p] = "commit"
        /\ loc[p].status # {}
        /\ ~(loc[p].fileArray \subseteq loc[p].status)

\* C8: when the status query of a repository fails or lists nothing, commit is
\* invoked for that repository with the pending set's own files.
C8_CommitAfterFailedStatus ==
    [][\A p \in Procs :
          (pc[p] = "status" /\ StepOf(p)) =>
              /\ pc'[p] = "commit"
              /\ loc'[p].repoRoot = loc[p].repoRoot
              /\ loc'[p].status = {} => loc'[p].allChangedFiles = loc[p].fileArray]_vars

\* C9: no two commit calls for one repository are outstanding together.
C9_NoConcurrentCommit ==
    \A p, q \in Procs :
        (p # q /\ CommitOutstanding(p) /\ CommitOutstanding(q)) =>
            loc[p].repoRoot # loc[q].repoRoot

\* C10: no call of the sweep ends by raising to its caller.
C10_SweepNeverRaises ==
    \A p \in Procs : hist[p].sweep # "raised"

\* A sweep has returned after a failure in its last repository, and another call
\* was dropped.
C10_Witness ==
    \E p, q \in Procs :
        /\ hist[p].sweep = "returned" /\ hist[p].last = "failed"
        /\ hist[q].sweep = "dropped"

\* C11: the flag is set only while a sweep is executing; the step that ends a sweep,
\* after a failure inside it or not, leaves the flag false; a trigger is dropped
\* only while another sweep is executing; and with a backend that answers, a set
\* flag is released.
C11_FlagReleased ==
    /\ [](commitInProgress => \E p \in Procs : InSweep(p))
    /\ [][\A p \in Procs :
             /\ (InSweep(p) /\ pc'[p] \notin {"status", "commit"}) => ~commitInProgress'
             /\ (hist[p].sweep # "dropped" /\ hist'[p].sweep = "dropped") =>
                    \E q \in Procs \ {p} : InSweep(q)]_vars
    /\ (commitInProgress ~> ~commitInProgress)

\* A sweep has finished after its last repository failed, and a later trigger has
\* started a sweep of its own.
C11_Witness ==
    \E p, q \in Procs :
        /\ p # q
        /\ hist[p].sweep = "returned" /\ hist[p].last = "failed"
        /\ InSweep(q) /\ commitInProgress

\* The text s occurs somewhere in the content c.
Occurs(c, s) ==
    \E i \in 1..(Len(c) + 1) :
        i + Len(s) - 1 <= Len(c) /\ SubSeq(c, i, i + Len(s) - 1) = s

\* An edit_block call by p is taken in this step.
EditCalled(p) ==
    pc[p] = "idle" /\ loc'[p].op = "edit_block"

\* C12: an edit whose search text does not occur in the file ends at once with the
\* not-found result; the file, the pending map, the timestamp, the flag and the
\* timer are as before, and the edit has tracked nothing and called no sweep.
C12_NotFoundChangesNothing ==
    [][\A p \in Procs :
          (EditCalled(p) /\ ~Occurs(disk[loc'[p].filePath], loc'[p].block.search)) =>
              /\ pc'[p] = "done"
              /\ loc'[p].result = "not_found"
              /\ hist'[p] = Hist0
              /\ UNCHANGED <<disk, pendingChangesByRepo, lastTrackTimestamp,
                             commitInProgress, snapshotTimeoutId, timers>>]_vars

\* An edit of a repository file has ended with the not-found result while another
\* file of that repository is pending and a sweep is executing.
C12_Witness ==
    \E p, q \in Procs :
        /\ pc[p] = "done" /\ loc[p].result = "not_found"
        /\ IsGitRepository(loc[p].filePath)
        /\ InSweep(q)
        /\ Get(pendingChangesByRepo, GetRepositoryRoot(loc[p].filePath)) # {}

\* The text s stands in the content c at the 0-based offset i.
OccursAt(c, s, i) ==
    i + Len(s) <= Len(c) /\ SubSeq(c, i + 1, i + Len(s)) = s

\* C13: an edit whose search text occurs in the file's content goes on to its
\* write, whatever the number of occurrences, and the content it writes is the
\* content up to the first occurrence, the replacement, and the content after that
\* occurrence.
C13_FirstOccurrenceReplaced ==
    [][\A p \in Procs :
          /\ (EditCalled(p) /\ Occurs(disk[loc'[p].filePath], loc'[p].block.search)) =>
                 pc'[p] \in {"root", "write"}
          /\ (pc[p] = "write" /\ pc'[p] = "done") =>
                 LET c == loc[p].contentStr
                     b == loc[p].block
                 IN
                 /\ c = disk[loc[p].filePath]
                 /\ loc'[p].result = "applied"
                 /\ \E i \in 0..Len(c) :
                        /\ OccursAt(c, b.search, i)
                        /\ \A j \in 0..(i - 1) : ~OccursAt(c, b.search, j)
                        /\ disk'[loc[p].filePath] =
                               SubSeq(c, 1, i) \o b.replace
                                   \o SubSeq(c, i + Len(b.search) + 1, Len(c))]_vars

\* The content "xyx" with x replaced by y has become "yyx".
C13_Witness ==
    \E p \in Procs :
        /\ Applied(p)
        /\ loc[p].contentStr = <<"x", "y", "x">>
        /\ loc[p].block = [search |-> <<"x">>, replace |-> <<"y">>]
        /\ disk[loc[p].filePath] = <<"y", "y", "x">>

\* The enrollment of p's file is made in this step.
EnrolledNow(p) ==
    pc[p] = "root" /\ loc'[p].trackedRoot # NoRepo

\* The callback of the timer enters the sweep in this step.
TimerSweepStarts ==
    pc[TimerCallback] = "idle" /\ pc'[TimerCallback] # "idle"

\* C14: under the timer variant every enrollment of a burst leaves exactly one
\* timer, due a full window after it, so that the burst ends in one sweep; and the
\* sweep the timer calls starts a full window or more after the last enrollment
\* and leaves no timer behind for a second one.
C14_BurstOneSweep ==
    [][policy = "debounced" =>
          /\ \A p \in Procs :
                 EnrolledNow(p) => timers' = {now + DEFAULT_BATCH_TIMEOUT}
          /\ TimerSweepStarts =>
                 /\ now - lastTrackTimestamp >= DEFAULT_BATCH_TIMEOUT
                 /\ timers' = {}]_vars

\* C15: under the timer variant every enrollment of a repository file, whatever
\* else is in progress, leaves the handle naming a timer that is set and due a
\* full window later.
C15_EnrollmentSchedulesTimer ==
    [][\A p \in Procs :
          (policy = "debounced" /\ EnrolledNow(p)) =>
              /\ snapshotTimeoutId' = now + DEFAULT_BATCH_TIMEOUT
              /\ snapshotTimeoutId' \in timers']_vars

\* p takes a step of one of the operations that go to the adapter directly.
GitOpStep(p) ==
    /\ StepOf(p)
    /\ {loc[p].op, loc'[p].op} \cap {"create_snapshot", "get_file_history", "revert_file"} # {}

\* The commit of repoRoot called by the sweep of p returns its hash in this step.
SweepCommitted(p, repoRoot) ==
    /\ pc[p] = "commit"
    /\ loc[p].repoRoot = repoRoot
    /\ hist'[p].last = "committed" /\ StepOf(p)

EditsOutside(p) ==
    /\ {loc[p].op, loc'[p].op} = {"edit_block"} \/ EditCalled(p)
    /\ ~IsGitRepository(loc'[p].filePath)

\* C17: under both variants, trackFileChange of a path outside every repository
\* changes nothing: from the call of the edit to its return the pending map, the
\* timestamp, the flag, the timer handle and the timers are as they were, the edit
\* goes from the search straight to its write, the sweep is not called, no status
\* query or commit is issued for it, and its result is not an error.
C17_OutsideRepositoryNoOp ==
    [][\A p \in Procs :
          (StepOf(p) /\ EditsOutside(p)) =>
              /\ UNCHANGED <<pendingChangesByRepo, lastTrackTimestamp, commitInProgress,
                             snapshotTimeoutId, timers>>
              /\ pc'[p] \in {"write", "done", "idle"}
              /\ (EditCalled(p) /\ Occurs(disk[loc'[p].filePath], loc'[p].block.search)) =>
                     pc'[p] = "write"
              /\ hist'[p].sweep = "none" /\ hist'[p].last = "none"
              /\ loc'[p].trackedRoot = NoRepo
              /\ loc'[p].result \in {"none", "applied", "not_found"}]_vars

\* An edit outside the repositories has been applied while files are pending and
\* a timer is set.
C17_Witness ==
    \E p \in Procs :
        /\ Applied(p) /\ ~IsGitRepository(loc[p].filePath)
        /\ HasPendingChanges
        /\ timers # {}

\* p has enrolled its file and has not written it yet, and no commit of the
\* file's repository has succeeded since the enrollment.
EnrolledUncommitted(p) ==
    loc[p].trackedRoot # NoRepo /\ pc[p] # "done" /\ ~hist[p].checkpointed

\* C18: whatever the interleaving of the enrollments, every file enrolled in a
\* repository is in the repository's set as long as no commit of that repository
\* has succeeded since its enrollment; two edits that enrolled distinct files of
\* one repository find both files there.
C18_InterleavedEnrollmentsKept ==
    \A p \in Procs :
        EnrolledUncommitted(p) =>
            RelativePath(loc[p].filePath, loc[p].trackedRoot)
                \in Get(pendingChangesByRepo, loc[p].trackedRoot)

\* Two edits in flight have enrolled distinct files of one repository, the second
\* while the sweep of the first waits for the backend, and no commit has succeeded.
C18_Witness ==
    \E p, q \in Procs :
        /\ p # q
        /\ EnrolledUncommitted(p) /\ EnrolledUncommitted(q)
        /\ loc[p].trackedRoot = loc[q].trackedRoot
        /\ loc[p].filePath # loc[q].filePath
        /\ InSweep(p) /\ pc[q] = "write"
        /\ Cardinality(Get(pendingChangesByRepo, loc[p].trackedRoot)) = 2

\* C19: an enrollment for one repository does not wait for a status query or a
\* commit of another repository: the sweep that trackFileChange awaits has a
\* backend call outstanding only for the repository of the enrolled file.
C19_EnrollmentWaitsOwnRootOnly ==
    \A p \in Procs :
        (loc[p].op = "edit_block" /\ loc[p].trackedRoot # NoRepo /\ InSweep(p)) =>
            loc[p].repoRoot = loc[p].trackedRoot

\* The sweep of p has the repository of p's file in hand or still ahead of it.
OwnRootAhead(l) ==
    \/ l.repoRoot = l.trackedRoot
    \/ \E i \in 1..Len(l.entries) : l.entries[i] = l.trackedRoot

\* The enrollment of p calls the sweep: it goes on to its write only when the call
\* is dropped, and with no sweep executing it enters the loop with its own
\* repository among the entries.
SweepInvoked(p) ==
    EnrolledNow(p) =>
        /\ pc'[p] = "write" => (commitInProgress /\ hist'[p].sweep = "dropped")
        /\ ~commitInProgress => (pc'[p] = "status" /\ OwnRootAhead(loc'[p]))

\* The sweep an enrollment started comes to the repository of the enrolled file.
OwnRootReached(p) ==
    (loc[p].op = "edit_block" /\ InSweep(p) /\ StepOf(p)
        /\ loc[p].repoRoot # loc[p].trackedRoot /\ OwnRootAhead(loc[p])) =>
            (InSweep(p)' /\ OwnRootAhead(loc'[p]))

\* The sweep an enrollment started, having queried the status of the repository of
\* the enrolled file, calls commitChanges for it.
CommitAttempted(p) ==
    (loc[p].op = "edit_block" /\ pc[p] = "status" /\ StepOf(p)
        /\ loc[p].repoRoot = loc[p].trackedRoot) =>
            (pc'[p] = "commit" /\ loc'[p].repoRoot = loc[p].trackedRoot)

\* C20: under the immediate policy every enrollment calls the sweep before
\* trackFileChange returns, and when no sweep is executing at that moment the
\* sweep it starts reaches the repository of the enrolled file and calls
\* commitChanges for it before it returns.
C20_EnrollmentAttemptsCommit ==
    [][policy = "immediate" =>
          \A p \in Procs : SweepInvoked(p) /\ OwnRootReached(p) /\ CommitAttempted(p)]_vars

\* C21: a history request whose backend call fails (the log or the resolution of
\* the repository root) is answered with an error, not with a normal result.
C21_HistoryFailureIsError ==
    (lastCall.op = "get_file_history" /\ lastCall.backend = "failed") =>
        lastCall.result = "error"

\* C22: a revert of one file is reported as done only when the checkout has been
\* performed; for a path outside every repository the caller gets an error.
C22_RevertOutsideIsError ==
    /\ (lastCall.op = "revert_file" /\ lastCall.result = "reverted") =>
           lastCall.backend = "ok"
    /\ (lastCall.op = "revert_file" /\ ~IsGitRepository(lastCall.filePath)) =>
           lastCall.result = "error"

\* The step is a call of revert_file answered with this result.
RevertAnswered(result) ==
    /\ lastCall'.op = "revert_file" /\ lastCall'.result = result
    /\ <<lastCall, repo, disk>>' # <<lastCall, repo, disk>>

\* The commits of repository repoRoot are all still there, in their places.
LogKept(repoRoot) ==
    /\ Len(repo'[repoRoot].log) >= Len(repo[repoRoot].log)
    /\ \A c \in 1..Len(repo[repoRoot].log) : repo'[repoRoot].log[c] = repo[repoRoot].log[c]

\* C23: a revert of one file creates no commit: the log of every repository, and so
\* the history of every file, is the same after it as before; in the working tree
\* no file but the reverted one changes, and that one holds its content at the
\* commit asked for.
C23_RevertFileNoCommit ==
    [][RevertAnswered("reverted") =>
          /\ \A repoRoot \in Repos : repo'[repoRoot].log = repo[repoRoot].log
          /\ \A f \in RepoFiles :
                 LogOf(repo'[f[1]], Tail(f), Len(repo'[f[1]].log))
                     = LogOf(repo[f[1]], Tail(f), Len(repo[f[1]].log))
          /\ \A f \in Paths : f # lastCall'.filePath => disk'[f] = disk[f]
          /\ lastCall'.backend = "ok" =>
                 disk'[lastCall'.filePath] =
                     repo[lastCall'.filePath[1]].log[lastCall'.commitHash][Tail(lastCall'.filePath)]]_vars

\* A file of a repository with three commits has been taken back from an earlier
\* commit to a content that is neither the head's nor what the file held.
C23_Witness ==
    /\ lastCall.op = "revert_file" /\ lastCall.result = "reverted" /\ lastCall.backend = "ok"
    /\ LET r == repo[lastCall.filePath[1]]
           path == Tail(lastCall.filePath)
       IN
       /\ Len(r.log) = 3
       /\ lastCall.commitHash < 3
       /\ disk[lastCall.filePath] = r.log[lastCall.commitHash][path]
       /\ disk[lastCall.filePath] # HeadTree(r)[path]

\* C24: a revert of a commit that succeeds appends one commit to the log of the
\* repository and leaves every earlier commit in place, those after the reverted
\* one included; the new commit changes, against the head it is made on, only
\* paths the reverted commit changed, each back to what the parent of the
\* reverted commit had, and it changes at least one.
C24_RevertCommitAppendsInverse ==
    [][RevertAnswered("reverted_all") =>
          LET repoRoot == lastCall'.filePath[1]
              c == lastCall'.commitHash
              old == repo[repoRoot].log
              new == repo'[repoRoot].log
          IN
          /\ Len(new) = Len(old) + 1
          /\ LogKept(repoRoot)
          /\ \A other \in Repos \ {repoRoot} : repo'[other] = repo[other]
          /\ \A path \in DOMAIN new[Len(new)] :
                 new[Len(new)][path] # old[Len(old)][path] =>
                     /\ old[c][path] # old[c - 1][path]
                     /\ old[Len(old)][path] = old[c][path]
                     /\ new[Len(new)][path] = old[c - 1][path]
          /\ new[Len(new)] # old[Len(old)]]_vars

\* The second of four commits has been reverted: the third is still in the log and
\* the fourth is the revert.
C24_Witness ==
    /\ lastCall.op = "revert_file" /\ lastCall.result = "reverted_all"
    /\ lastCall.commitHash = 2
    /\ Len(repo["r1"].log) = 4
    /\ repo["r1"].log[3] # repo["r1"].log[2]

ForceCalled(p) ==
    pc[p] = "idle" /\ loc'[p].op = "force_create_snapshots"

\* C26: under either tracker, force_create_snapshots with no file pending in any
\* repository answers that there is nothing to snapshot, and neither starts a
\* sweep nor calls the backend nor changes the tracker; with a file pending it
\* calls the sweep whatever the timer: the call is dropped when a sweep is
\* executing, and otherwise the timer is cancelled and the sweep is at its first
\* backend call.
C26_ForceFlush ==
    [][\A p \in Procs :
          ForceCalled(p) =>
              IF ~HasPendingChanges
              THEN /\ pc'[p] = "done"
                   /\ loc'[p].result = "no_pending"
                   /\ hist'[p] = Hist0
                   /\ UNCHANGED <<pendingChangesByRepo, lastTrackTimestamp,
                                  commitInProgress, snapshotTimeoutId, timers>>
              ELSE IF commitInProgress
              THEN hist'[p].sweep = "dropped"
              ELSE /\ InSweep(p)'
                   /\ commitInProgress'
                   /\ loc'[p].message = <<"Manually triggered snapshot">>
                   /\ snapshotTimeoutId' = NoTimer
                   /\ timers' = {}]_vars

\* A forced flush is executing its sweep within the quiet window of the last
\* enrollment, the timer cancelled.
C26_Witness ==
    \E p \in Procs :
        /\ InSweep(p) /\ loc[p].op = "force_create_snapshots"
        /\ policy = "debounced"
        /\ now - lastTrackTimestamp < DEFAULT_BATCH_TIMEOUT
        /\ timers = {}

\* The message ends with the path of the file.
NamesFile(commitMessage, f) ==
    /\ Len(commitMessage) > Len(f)
    /\ SubSeq(commitMessage, Len(commitMessage) - Len(f) + 1, Len(commitMessage)) = f

\* C27: the commit message built for a repository is the message the caller gave
\* when it gave one; otherwise it is a generated one that names the file when one
\* file is tracked, and the number of tracked files and none of them when more are.
C27_CommitMessage ==
    \A p \in Procs :
        (pc[p] = "done" /\ loc[p].op = "sweep") =>
            LET l == loc[p] IN
            /\ l.message # NoMessage => l.commitMessage = l.message
            /\ (l.message = NoMessage /\ Cardinality(l.fileArray) = 1) =>
                   \A f \in l.fileArray : NamesFile(l.commitMessage, f)
            /\ (l.message = NoMessage /\ Cardinality(l.fileArray) > 1) =>
                   /\ l.commitMessage[Len(l.commitMessage)] = ToString(Cardinality(l.fileArray))
                   /\ \A f \in l.fileArray : ~NamesFile(l.commitMessage, f)

\* A message has been generated for a set of three files.
C27_Witness ==
    \E p \in Procs :
        /\ pc[p] = "done" /\ loc[p].op = "sweep"
        /\ loc[p].message = NoMessage
        /\ Cardinality(loc[p].fileArray) = 3
        /\ loc[p].commitMessage # NoMessage

\* What withTimeout has resolved with agrees with what has happened: nothing while
\* the timer is set, the operation's value (the fallback if it failed) when the
\* operation came first and cleared the timer, the fallback when the timer fired.
ResolvedAsOrdered(s) ==
    /\ Len(s.resolved) <= 1
    /\ s.isCompleted <=> s.resolved # <<>>
    /\ s.timer \in {"none", "set"} => (s.resolved = <<>> /\ s.operation \in {"none", "pending"})
    /\ s.timer = "cleared" =>
           /\ s.operation \in {"matches", "empty", "rejected"}
           /\ s.resolved = <<IF s.operation = "rejected" THEN DefaultValue ELSE s.operation>>
    /\ s.timer = "fired" => s.resolved = <<DefaultValue>>

\* C28: withTimeout resolves once and never rejects: with the operation's value
\* when the operation fulfils before the deadline, with the fallback when the
\* deadline comes first or the operation fails; it does resolve once its timer is
\* set; and an operation that completes after the deadline changes neither what
\* was resolved nor the caller.
C28_WithTimeoutSettlesOnce ==
    /\ [](\A p \in Invocations : ResolvedAsOrdered(search[p]))
    /\ [][\A p \in Invocations :
            (search[p].timer = "fired" /\ search[p].operation = "pending"
                /\ search'[p].operation # "pending") =>
                /\ search'[p].resolved = search[p].resolved
                /\ UNCHANGED <<pc, loc>>]_vars
    /\ \A p \in Invocations :
           (search[p].timer = "set") ~> (Len(search[p].resolved) = 1)

\* An operation has completed with matches after its deadline: the fallback stays.
C28_Witness ==
    \E p \in Invocations :
        /\ search[p].timer = "fired"
        /\ search[p].operation = "matches"
        /\ search[p].resolved = <<DefaultValue>>

\* The deadline of the search of p passes before the search has completed.
DeadlineExceeded(p) ==
    /\ search[p].timer = "set" /\ search'[p].timer = "fired"
    /\ search[p].operation = "pending"

\* C29: when the deadline of a search passes first, the handler ends with the
\* no-matches-or-timed-out result, not with an error; and if a subprocess is
\* registered in the global at that moment, it is killed and the registration
\* is removed.
C29_TimedOutSearch ==
    [][\A p \in Invocations :
          DeadlineExceeded(p) =>
              /\ pc'[p] = "done"
              /\ loc'[p].result = "no_matches_or_timed_out"
              /\ currentSearchProcess' = NoProcess
              /\ currentSearchProcess # NoProcess =>
                     /\ search[currentSearchProcess].process = "running" =>
                            search'[currentSearchProcess].process = "killed"
                     /\ search'[currentSearchProcess].process # "running"]_vars

\* A search has timed out and its own subprocess, registered, has been killed.
C29_Witness ==
    \E p \in Invocations :
        /\ pc[p] = "done" /\ loc[p].result = "no_matches_or_timed_out"
        /\ search[p].timer = "fired"
        /\ search[p].operation = "pending"
        /\ search[p].process = "killed"
        /\ currentSearchProcess = NoProcess

\* C30: the answer to an edit that has been applied carries the offset at which
\* the search text was found in the content read.
C30_AppliedCarriesOffset ==
    \A p \in Procs :
        Applied(p) =>
            LET answer == ServerResult(loc[p]) IN
            /\ ~answer.isError
            /\ \E i \in 1..Len(answer.text) : answer.text[i] = ToString(loc[p].searchIndex)

SweepEntered(p) ==
    /\ ~InSweep(p)
    /\ \/ InSweep(p)'
       \/ hist[p].sweep = "none" /\ hist'[p].sweep \in {"returned", "raised"}

\* p's call of the sweep is dropped in this step.
SweepDropped(p) ==
    hist[p].sweep # "dropped" /\ hist'[p].sweep = "dropped"

\* C32: at most one timer is set at any time, and it is the one the handle
\* names; no timer is set while a sweep is executing; an enrollment that
\* schedules leaves its own timer alone; a sweep that passes the guard leaves no
\* timer and a null handle; a dropped call of the sweep leaves the timers and the
\* handle as they were.
C32_TimerHandle ==
    /\ [](/\ Cardinality(timers) <= 1
          /\ timers \subseteq {snapshotTimeoutId}
          /\ commitInProgress => timers = {})
    /\ [][\A p \in Procs :
             /\ (EnrolledNow(p) /\ policy = "debounced" /\ ~commitInProgress) =>
                    timers' = {now + DEFAULT_BATCH_TIMEOUT}
             /\ SweepEntered(p) => (timers' = {} /\ snapshotTimeoutId' = NoTimer)
             /\ SweepDropped(p) =>
                    /\ snapshotTimeoutId' = snapshotTimeoutId
                    /\ timers' = IF p = TimerCallback
                                 THEN timers \ {snapshotTimeoutId} ELSE timers]_vars

\* Under the timer variant a forced flush is executing its sweep before the
\* timer of the enrollment it commits was due: the timer is gone and the handle
\* is null.
C32_Witness ==
    /\ policy = "debounced"
    /\ now < 1 + DEFAULT_BATCH_TIMEOUT
    /\ timers = {} /\ snapshotTimeoutId = NoTimer
    /\ \E p \in Invocations : InSweep(p) /\ loc[p].entries # <<>>

\* p's edit has read the content of its file, not a message in its place.
ReadContent(l) ==
    l.contentStr \notin {TimedOutMessage, TooLargeMessage}

\* p writes the file it was asked to edit in this step.
WritesFile(p) ==
    /\ pc[p] = "write" /\ pc'[p] = "done"
    /\ disk'[Resolve(loc[p].filePath)] # disk[Resolve(loc[p].filePath)]

\* C33: an edit that has read its file's content writes a content computed from
\* what the file holds when the write is made: no write of another edit has come
\* between its read and its write.
C33_NoSupersededWrite ==
    [][\A p \in Invocations :
          (WritesFile(p) /\ ReadContent(loc[p])) =>
              loc[p].contentStr = disk[Resolve(loc[p].filePath)]]_vars

\* C34: an edit whose read has yielded anything but the content of the file (the
\* message of the deadline, of a failed read or of the size limit) ends at once
\* and writes nothing, whatever its search text; so every write of an edit is
\* computed from the content the file held when it was read.
C34_NoWriteAfterFailedRead ==
    [][\A p \in Invocations :
          /\ (EditCalled(p) /\ loc'[p].contentStr # disk[Resolve(loc'[p].filePath)]) =>
                 pc'[p] = "done"
          /\ (pc[p] = "write" /\ ~ReadContent(loc[p])) => disk' = disk]_vars

\* C38: the write of an edit changes no file but the one its requested path
\* resolves to; in particular nothing is written under the name of the error
\* indicator.
C38_WriteTargetsRequestedPath ==
    [][\A p \in Invocations :
          (pc[p] = "write" /\ pc'[p] = "done") =>
              \A f \in FilePaths \ {Resolve(loc[p].filePath)} : disk'[f] = disk[f]]_vars

\* C35: under the timer variant, whenever a file is pending and no sweep is
\* executing, a timer is set that will call the sweep.
C35_PendingHasTimer ==
    (policy = "debounced" /\ HasPendingChanges /\ ~commitInProgress) => timers # {}

\* C36: a forced flush that answers that the snapshots were created has had its
\* call of the sweep executed, not dropped, and the commit of a repository with
\* files pending succeed in it.
C36_ForceSuccessMeansCommitted ==
    \A p \in Procs :
        (pc[p] = "done" /\ loc[p].result = "snapshots_created") =>
            /\ hist[p].sweep = "returned"
            /\ hist[p].last = "committed"

\* p's call of trackFileChange is in progress: at the resolution of the root, or
\* in the sweep it has called.
InTrackFileChange(p) ==
    loc[p].op = "edit_block" /\ pc[p] \in {"root", "status", "commit"}

\* The resolution of the root of p's file fails in this step.
RootResolutionFails(p) ==
    pc[p] = "root" /\ pc'[p] # "root" /\ loc'[p].trackedRoot = NoRepo

\* C37: under both variants a call of trackFileChange ends only by returning to
\* the edit, which goes on to its write; and when the repository root cannot be
\* resolved it returns at once with the pending map, the timestamp, the flag, the
\* handle and the timers as they were, and without calling the sweep.
C37_EnrollNeverRaises ==
    [][\A p \in Procs :
          /\ (InTrackFileChange(p) /\ StepOf(p)) =>
                 /\ pc'[p] \in {"status", "commit", "write"}
                 /\ loc'[p].result = "none"
                 /\ pc'[p] = "write" => hist'[p].tracked
          /\ RootResolutionFails(p) =>
                 /\ pc'[p] = "write"
                 /\ hist'[p].sweep = "none" /\ hist'[p].last = "none"
                 /\ UNCHANGED <<pendingChangesByRepo, lastTrackTimestamp,
                                commitInProgress, snapshotTimeoutId, timers>>]_vars

\* Under the timer variant an edit of a repository file is at its write, the
\* root of its file not resolved, while a file is pending, a sweep is executing
\* and the file of the edit is not enrolled.
C37_Witness ==
    \E p, q \in Procs :
        /\ policy = "debounced"
        /\ pc[p] = "write" /\ IsGitRepository(loc[p].filePath)
        /\ loc[p].trackedRoot = NoRepo /\ hist[p].tracked
        /\ InSweep(q)
        /\ HasPendingChanges
        /\ RelativePath(loc[p].filePath, GetRepositoryRoot(loc[p].filePath))
               \notin Get(pendingChangesByRepo, GetRepositoryRoot(loc[p].filePath))

====
